---- MODULE Spec2Model ----
(***************************************************************************)
(* State machine of the Home component (frontend/src/app/page.tsx): the    *)
(* React state slots, the event handlers and the continuations that run    *)
(* when a fetch settles.  Every handler runs to its next await in one      *)
(* step; the state updates made after the last await of a handler are      *)
(* batched, so a settled request is one step as well.  The report-logging  *)
(* exchange of the test script is a state machine of its own.              *)
(*                                                                         *)
(* Strings that the code takes apart (paths) are sequences of characters;  *)
(* strings that are only stored and compared are TLA+ strings.  JSON       *)
(* bodies carry a repo object whenever they parse (rendering is outside    *)
(* the model).                                                             *)
(***************************************************************************)
EXTENDS Integers, Sequences, FiniteSets, TLC

VARIABLES repoUrl, loading, result, error, currentPath, contentsResult,
          loadingContents, analysisResult, loadingAnalysis, fuzzingResult,
          loadingFuzzing, instructionName, timeoutSeconds,
          net,        \* requests in flight, in the order they were issued
          log,        \* the report-logging exchange of the test script
          newest,     \* history: what became of the list request issued last
          session     \* history: the URL submitted last and how its ingestion ended

vars == <<repoUrl, loading, result, error, currentPath, contentsResult,
          loadingContents, analysisResult, loadingAnalysis, fuzzingResult,
          loadingFuzzing, instructionName, timeoutSeconds, net, log, newest,
          session>>

-----------------------------------------------------------------------------
\* Bounds of the model.
MaxListsInFlight == 2
MaxPathLen == 3

\* min / max attributes of the timeout input.
MinTimeout == 1
MaxTimeout == 120

\* Initial value of the timeout input.
DefaultTimeout == 60

Null == [tag |-> "null"]

Urls == {"u1"}
PathChars == {"a", "b", "/"}
InstructionNames == {"", "increment"}
TimeoutValues == {0, DefaultTimeout, MaxTimeout + 1}

RECURSIVE StringsUpTo(_)
StringsUpTo(n) ==
    IF n = 0 THEN {<<>>}
    ELSE LET S == StringsUpTo(n - 1)
         IN  S \cup {Append(s, c) : s \in S, c \in PathChars}

\* Every path of at most MaxPathLen characters.
PathStrings == StringsUpTo(MaxPathLen)

\* Paths the entries of the listings served while browsing carry.
Paths == {<<"a">>, <<"a", "/", "b">>}

-----------------------------------------------------------------------------
\* String operations of navigateUp.

HasSlash(s) == \E i \in 1..Len(s) : s[i] = "/"

FirstSlash(s) == CHOOSE i \in 1..Len(s) : s[i] = "/" /\ \A j \in 1..(i - 1) : s[j] # "/"

\* s.split('/')
RECURSIVE Split(_)
Split(s) ==
    IF ~HasSlash(s) THEN <<s>>
    ELSE <<SubSeq(s, 1, FirstSlash(s) - 1)>> \o Split(SubSeq(s, FirstSlash(s) + 1, Len(s)))

\* parts.pop(), as the array it leaves behind
PopFirst(parts) == Tail(parts)
Pop(parts) == SubSeq(parts, 1, Len(parts) - 1)

\* parts.join('/')
RECURSIVE Join(_)
Join(parts) ==
    IF Len(parts) = 0 THEN <<>>
    ELSE IF Len(parts) = 1 THEN parts[1]
    ELSE parts[1] \o <<"/">> \o Join(Tail(parts))

\* parentPath of navigateUp
ParentPath(p) == Join(Pop(Split(p)))

-----------------------------------------------------------------------------
\* Requests and responses.

Req(kind, url, path, instr, timeout) ==
    [kind |-> kind, url |-> url, path |-> path, instr |-> instr, timeout |-> timeout,
     stale |-> FALSE]   \* history: issued before the latest submission

\* A response: its status class and its body.
TextBody(t) == [tag |-> "text", text |-> t]
JsonBody(d) == [tag |-> "json", data |-> d]
TextBodies == {TextBody(""), TextBody("oops")}

IngestData == {
    [tag |-> "data", success |-> TRUE,  anchor |-> "true",      message |-> "m"],
    [tag |-> "data", success |-> TRUE,  anchor |-> "false",     message |-> "m"],
    [tag |-> "data", success |-> FALSE, anchor |-> "undefined", message |-> "m"],
    [tag |-> "data", success |-> FALSE, anchor |-> "undefined", message |-> ""] }

Entries == [path : Paths, content_type : {"dir"}]
            \cup {[path |-> <<"b">>, content_type |-> "file"]}
Listings == {<<>>} \cup {<<e>> : e \in Entries}
ListData ==
    {[success |-> TRUE, has |-> "contents", contents |-> l, preview |-> FALSE] : l \in Listings}
    \cup {[success |-> TRUE, has |-> "file", contents |-> <<>>, preview |-> b] : b \in BOOLEAN}
    \cup {[success |-> FALSE, has |-> "none", contents |-> <<>>, preview |-> FALSE]}
\* The listing of an empty directory.
EmptyListing == {[success |-> TRUE, has |-> "contents", contents |-> <<>>, preview |-> FALSE]}

BugLists == {<<>>, <<"f1">>, <<"f2", "f1">>}
AnalysisData == [tag : {"data"}, success : BOOLEAN, message : {"done"}, bugs : BugLists]

FuzzData == [tag : {"data"}, success : BOOLEAN, message : {"ran"}, errors : {<<>>, <<"e">>}]

\* The outcomes of a fetch whose handler parses the body whatever the status; a
\* non-2xx response that carries JSON reports a failure.
Responses(D) ==
    {[status |-> "netfail", body |-> TextBody("")]}
    \cup [status : {"ok"}, body : TextBodies \cup {JsonBody(d) : d \in D}]
    \cup [status : {"bad"}, body : TextBodies \cup {JsonBody(d) : d \in {x \in D : ~x.success}}]

\* The outcomes of a fetch whose handler reads a non-2xx body as text only.
TextResponses(D) ==
    {[status |-> "netfail", body |-> TextBody("")]}
    \cup [status : {"bad"}, body : TextBodies]
    \cup [status : {"ok"}, body : TextBodies \cup {JsonBody(d) : d \in D}]

\* The responses each handler may receive.
IngestResponses == Responses(IngestData)
ListResponses == TextResponses(ListData)
AnalysisResponses == TextResponses(AnalysisData)
FuzzResponses == TextResponses(FuzzData)

\* response.text() of a body that is read as text
RawText(body) == body.text

\* Messages of the errors the runtime raises: a fetch that fails, and
\* response.json() on a body that is not JSON.
NetworkError == "Failed to fetch"
SyntaxError == "Unexpected end of JSON input"

Remove(s, i) == SubSeq(s, 1, i - 1) \o SubSeq(s, i + 1, Len(s))
Count(kind) == Cardinality({i \in 1..Len(net) : net[i].kind = kind})

\* Bound of the model: a list request, or an ingestion that may start one, is
\* issued only while fewer than MaxListsInFlight of them are outstanding.
ListSlotFree == Count("list") + Count("ingest") < MaxListsInFlight

-----------------------------------------------------------------------------
Init ==
    /\ repoUrl = ""
    /\ loading = FALSE
    /\ result = Null
    /\ error = ""
    /\ currentPath = <<>>
    /\ contentsResult = Null
    /\ loadingContents = FALSE
    /\ analysisResult = Null
    /\ loadingAnalysis = FALSE
    /\ fuzzingResult = Null
    /\ loadingFuzzing = FALSE
    /\ instructionName = "increment"
    /\ timeoutSeconds = DefaultTimeout
    /\ net = <<>>
    /\ log = Null
    /\ newest = Null
    /\ session = [url |-> "", status |-> "none"]

\* onChange of the repository URL input
SetRepoUrl(u) ==
    /\ u # repoUrl
    /\ repoUrl' = u
    /\ UNCHANGED log
    /\ UNCHANGED <<loading, result, error, currentPath, contentsResult,
                   loadingContents, analysisResult, loadingAnalysis, fuzzingResult,
                   loadingFuzzing, instructionName, timeoutSeconds, net, newest, session>>

\* onChange of the instruction name and timeout inputs, which are rendered with
\* the analysis and fuzz controls
ControlsVisible == result # Null /\ result.anchor = "true"

SetInstructionName(n) ==
    /\ ControlsVisible
    /\ n # instructionName
    /\ instructionName' = n
    /\ UNCHANGED log
    /\ UNCHANGED <<repoUrl, loading, result, error, currentPath, contentsResult,
                   loadingContents, analysisResult, loadingAnalysis, fuzzingResult,
                   loadingFuzzing, timeoutSeconds, net, newest, session>>

SetTimeoutSeconds(t) ==
    /\ ControlsVisible
    /\ t # timeoutSeconds
    /\ timeoutSeconds' = t
    /\ UNCHANGED log
    /\ UNCHANGED <<repoUrl, loading, result, error, currentPath, contentsResult,
                   loadingContents, analysisResult, loadingAnalysis, fuzzingResult,
                   loadingFuzzing, instructionName, net, newest, session>>

\* History bookkeeping on the requests in flight.
Outdated(s) == [i \in 1..Len(s) |-> [s[i] EXCEPT !.stale = TRUE]]
Pending == [tag |-> "pending"]
Committed(path) == [tag |-> "committed", path |-> path]
\* The request at position i is the list request issued last.
IsNewest(i) == newest = Pending /\ \A j \in (i + 1)..Len(net) : net[j].kind # "list"

\* handleSubmit up to its fetch
HandleSubmit ==
    /\ ~loading
    /\ repoUrl # ""
    /\ ListSlotFree
    /\ loading' = TRUE
    /\ error' = ""
    /\ result' = Null
    /\ contentsResult' = Null
    /\ currentPath' = <<>>
    /\ analysisResult' = Null
    /\ net' = Append(Outdated(net), Req("ingest", repoUrl, <<>>, "", 0))
    /\ newest' = Null
    /\ session' = [url |-> repoUrl, status |-> "ingesting"]
    /\ UNCHANGED log
    /\ UNCHANGED <<repoUrl, loadingContents, loadingAnalysis, fuzzingResult,
                   loadingFuzzing, instructionName, timeoutSeconds>>

\* fetchRepoContents up to its fetch; base holds the other requests in flight
FetchRepoContents(base, url, path) ==
    /\ loadingContents' = TRUE
    /\ error' = ""
    /\ net' = Append(base, Req("list", url, path, "", 0))
    /\ newest' = Pending

Parsed(resp) == resp.status # "netfail" /\ resp.body.tag = "json"

\* Message of the error handleSubmit catches, "" when it catches none.
IngestFailure(resp) ==
    CASE resp.status = "netfail" -> NetworkError
      [] ~Parsed(resp) -> SyntaxError
      [] resp.status = "bad" ->
            IF resp.body.data.message # "" THEN resp.body.data.message
            ELSE "Failed to ingest repository"
      [] OTHER -> ""

\* The catch block of handleSubmit
IngestCatchFirstErrorWins(msg) == error' = IF error # "" THEN error ELSE msg
IngestCatch(msg) == error' = msg

\* handleSubmit from the settling of its fetch
IngestDone(i, resp) ==
    /\ net[i].kind = "ingest"
    /\ LET r == net[i]
           rest == Remove(net, i)
           browse == /\ IngestFailure(resp) = ""
                     /\ resp.body.data.success
                     /\ resp.body.data.anchor = "true"
       IN  /\ result' = IF Parsed(resp) THEN resp.body.data ELSE result
           /\ IF browse
              THEN FetchRepoContents(rest, r.url, <<>>)
              ELSE /\ net' = rest
                   /\ IF IngestFailure(resp) # ""
                      THEN IngestCatch(IngestFailure(resp))
                      ELSE UNCHANGED error
                   /\ UNCHANGED <<loadingContents, newest>>
           /\ loading' = FALSE
           /\ session' = [session EXCEPT !.status = IF browse THEN "eligible" ELSE "ineligible"]
    /\ UNCHANGED log
    /\ UNCHANGED <<repoUrl, currentPath, contentsResult, analysisResult, loadingAnalysis,
                   fuzzingResult, loadingFuzzing, instructionName, timeoutSeconds>>

\* Message of the error fetchRepoContents and analyzeCode throw for a response,
\* "" when they throw none.
TextFailureSameMessage(resp) ==
    CASE resp.status = "netfail" -> NetworkError
      [] resp.status = "bad" \/ resp.body.tag = "text" ->
            IF RawText(resp.body) # "" THEN RawText(resp.body) ELSE "Server error: 500"
      [] OTHER -> ""
TextFailure(resp) ==
    CASE resp.status = "netfail" -> NetworkError
      [] resp.status = "bad" ->
            IF RawText(resp.body) # "" THEN RawText(resp.body) ELSE "Server error: 500"
      [] resp.body.tag = "text" /\ resp.body.text = "" -> "Empty response from server"
      [] resp.body.tag = "text" -> "Invalid response format from server"
      [] OTHER -> ""

\* What fetchRepoContents stores: the parsed response, or its fallback record.
ContentsOf(r, d) ==
    [tag |-> "data", success |-> d.success, message |-> "ok", has |-> d.has,
     contents |-> d.contents, preview |-> d.preview, repo_url |-> r.url, path |-> r.path]
ContentsFallbackEmptyListing(r, msg) ==
    [tag |-> "data", success |-> FALSE, message |-> msg, has |-> "contents",
     contents |-> <<>>, preview |-> FALSE, repo_url |-> r.url, path |-> r.path]
ContentsFallback(r, msg) ==
    [tag |-> "data", success |-> FALSE, message |-> msg, has |-> "none",
     contents |-> <<>>, preview |-> FALSE, repo_url |-> r.url, path |-> r.path]

\* The catch block of fetchRepoContents
ListCatchResetsPath(r, msg) ==
    /\ error' = msg
    /\ contentsResult' = ContentsFallback(r, msg)
    /\ currentPath' = <<>>
ListCatch(r, msg) ==
    /\ error' = msg
    /\ contentsResult' = ContentsFallback(r, msg)
    /\ UNCHANGED currentPath

\* setContentsResult(data); setCurrentPath(path) on the parsed response
SetContentsKeepsPath(r, data) ==
    /\ contentsResult' = ContentsOf(r, data)
    /\ UNCHANGED currentPath
SetContents(r, data) ==
    /\ contentsResult' = ContentsOf(r, data)
    /\ currentPath' = r.path

\* fetchRepoContents from the settling of its fetch
ListDone(i, resp) ==
    /\ net[i].kind = "list"
    /\ LET r == net[i]
           msg == TextFailure(resp)
       IN  /\ IF msg = ""
              THEN /\ SetContents(r, resp.body.data)
                   /\ UNCHANGED error
              ELSE ListCatch(r, msg)
           /\ loadingContents' = FALSE
           /\ net' = Remove(net, i)
           /\ newest' = IF ~IsNewest(i) THEN newest
                        ELSE IF msg = "" THEN Committed(r.path)
                        ELSE Null
    /\ UNCHANGED log
    /\ UNCHANGED <<repoUrl, loading, result, analysisResult, loadingAnalysis,
                   fuzzingResult, loadingFuzzing, instructionName, timeoutSeconds, session>>

\* The listing block is rendered: contentsResult && contentsResult.contents
ListingVisible == contentsResult # Null /\ contentsResult.has = "contents"

\* What the listing and file blocks render for the stored contents result.
ContentsView ==
    IF contentsResult = Null THEN "nothing"
    ELSE IF contentsResult.has = "contents"
         THEN IF Len(contentsResult.contents) = 0 THEN "empty directory" ELSE "listing"
    ELSE IF contentsResult.has = "file"
         THEN IF contentsResult.preview THEN "file content" ELSE "preview unavailable"
    ELSE "nothing"

\* navigateToPath, from a click on a directory entry of the listing
NavigateToPath(k) ==
    /\ ListingVisible
    /\ k \in 1..Len(contentsResult.contents)
    /\ contentsResult.contents[k].content_type = "dir"
    /\ ListSlotFree
    /\ FetchRepoContents(net, repoUrl, contentsResult.contents[k].path)
    /\ UNCHANGED log
    /\ UNCHANGED <<repoUrl, loading, result, currentPath, contentsResult,
                   analysisResult, loadingAnalysis, fuzzingResult, loadingFuzzing,
                   instructionName, timeoutSeconds, session>>

\* navigateUp, from a click on the Up button of the listing
NavigateUp ==
    /\ ListingVisible
    /\ IF currentPath = <<>>
       THEN UNCHANGED <<loadingContents, error, net, newest>>
       ELSE /\ ListSlotFree
            /\ FetchRepoContents(net, repoUrl, ParentPath(currentPath))
    /\ UNCHANGED log
    /\ UNCHANGED <<repoUrl, loading, result, currentPath, contentsResult,
                   analysisResult, loadingAnalysis, fuzzingResult, loadingFuzzing,
                   instructionName, timeoutSeconds, session>>

\* The analyze button is rendered and not disabled.
AnalyzeEnabledAlways == ControlsVisible
AnalyzeEnabled == ControlsVisible /\ ~loadingAnalysis

\* analyzeCode up to its fetch
AnalyzeCode ==
    /\ AnalyzeEnabled
    /\ IF repoUrl = ""
       THEN UNCHANGED <<loadingAnalysis, error, analysisResult, net>>
       ELSE /\ loadingAnalysis' = TRUE
            /\ error' = ""
            /\ analysisResult' = Null
            /\ net' = Append(net, Req("analyze", repoUrl, <<>>, "", 0))
    /\ UNCHANGED log
    /\ UNCHANGED <<repoUrl, loading, result, currentPath, contentsResult,
                   loadingContents, fuzzingResult, loadingFuzzing, instructionName,
                   timeoutSeconds, newest, session>>

\* The fallback analysis result of a failed scan
FailedScan(msg) == [tag |-> "data", success |-> FALSE, message |-> msg, bugs |-> <<>>]

\* The catch block of analyzeCode
AnalyzeCatchKeepsError(msg) ==
    /\ UNCHANGED error
    /\ analysisResult' = FailedScan(msg)
AnalyzeCatch(msg) ==
    /\ error' = msg
    /\ analysisResult' = FailedScan(msg)

\* setAnalysisResult(data) on the parsed response
SetAnalysisResultReversed(data) ==
    analysisResult' = [data EXCEPT !.bugs = [k \in 1..Len(@) |-> @[Len(@) + 1 - k]]]
SetAnalysisResult(data) == analysisResult' = data

\* analyzeCode from the settling of its fetch
AnalyzeDone(i, resp) ==
    /\ net[i].kind = "analyze"
    /\ IF TextFailure(resp) = ""
       THEN /\ SetAnalysisResult(resp.body.data)
            /\ UNCHANGED error
       ELSE AnalyzeCatch(TextFailure(resp))
    /\ loadingAnalysis' = FALSE
    /\ net' = Remove(net, i)
    /\ UNCHANGED log
    /\ UNCHANGED <<repoUrl, loading, result, currentPath, contentsResult,
                   loadingContents, fuzzingResult, loadingFuzzing, instructionName,
                   timeoutSeconds, newest, session>>

\* The fuzz button is rendered and not disabled.
FuzzEnabledWhenIdle == ControlsVisible /\ ~loadingFuzzing /\ ~loadingAnalysis
FuzzEnabled == ControlsVisible /\ ~loadingFuzzing

\* runFuzzingTests up to its fetch
RunFuzzingTests ==
    /\ FuzzEnabled
    /\ IF repoUrl = ""
       THEN UNCHANGED <<loadingFuzzing, fuzzingResult, error, net>>
       ELSE /\ loadingFuzzing' = TRUE
            /\ fuzzingResult' = Null
            /\ error' = ""
            /\ net' = Append(net, Req("fuzz", repoUrl, <<>>, instructionName, timeoutSeconds))
    /\ UNCHANGED log
    /\ UNCHANGED <<repoUrl, loading, result, currentPath, contentsResult,
                   loadingContents, analysisResult, loadingAnalysis, instructionName,
                   timeoutSeconds, newest, session>>

\* Message of the error runFuzzingTests catches, "" when it catches none.
FuzzFailure(resp) ==
    CASE resp.status = "netfail" -> NetworkError
      [] resp.status = "bad" ->
            IF RawText(resp.body) # "" THEN RawText(resp.body)
            ELSE "Failed to run fuzzing tests"
      [] resp.body.tag = "text" -> SyntaxError
      [] OTHER -> ""

\* The catch block of runFuzzingTests
FuzzCatchClearsAnalysis(msg) ==
    /\ error' = msg
    /\ analysisResult' = Null
    /\ UNCHANGED fuzzingResult
FuzzCatch(msg) ==
    /\ error' = msg
    /\ UNCHANGED <<fuzzingResult, analysisResult>>

\* The finally block of runFuzzingTests
FuzzFinallyMissing == UNCHANGED loadingFuzzing
FuzzFinally == loadingFuzzing' = FALSE

\* runFuzzingTests from the settling of its fetch
FuzzDone(i, resp) ==
    /\ net[i].kind = "fuzz"
    /\ IF FuzzFailure(resp) = ""
       THEN /\ fuzzingResult' = resp.body.data
            /\ UNCHANGED <<error, analysisResult>>
       ELSE FuzzCatch(FuzzFailure(resp))
    /\ FuzzFinally
    /\ net' = Remove(net, i)
    /\ UNCHANGED log
    /\ UNCHANGED <<repoUrl, loading, result, currentPath, contentsResult,
                   loadingContents, loadingAnalysis, instructionName,
                   timeoutSeconds, newest, session>>

-----------------------------------------------------------------------------
\* The whole component.
Next ==
    \/ \E u \in Urls \cup {""} : SetRepoUrl(u)
    \/ \E n \in InstructionNames : SetInstructionName(n)
    \/ \E t \in TimeoutValues : SetTimeoutSeconds(t)
    \/ HandleSubmit
    \/ \E i \in 1..Len(net), resp \in Responses(IngestData) : IngestDone(i, resp)
    \/ \E k \in 1..1 : NavigateToPath(k)
    \/ NavigateUp
    \/ \E i \in 1..Len(net), resp \in TextResponses(ListData) : ListDone(i, resp)
    \/ AnalyzeCode
    \/ \E i \in 1..Len(net), resp \in TextResponses(AnalysisData) : AnalyzeDone(i, resp)
    \/ RunFuzzingTests
    \/ \E i \in 1..Len(net), resp \in TextResponses(FuzzData) : FuzzDone(i, resp)

Spec == Init /\ [][Next]_vars

\* The product of the four sub-states is too large to enumerate, so the
\* properties are checked under restrictions of Next: each keeps submission and
\* ingestion and the handlers of the sub-states its properties are about, and
\* every behaviour of a restriction is a behaviour of Spec.

\* Sessions in which the user submits repositories and browses them.
NextBrowse ==
    \/ \E u \in Urls \cup {""} : SetRepoUrl(u)
    \/ HandleSubmit
    \/ \E i \in 1..Len(net), resp \in Responses(IngestData) : IngestDone(i, resp)
    \/ \E k \in 1..1 : NavigateToPath(k)
    \/ NavigateUp
    \/ \E i \in 1..Len(net), resp \in TextResponses(ListData) : ListDone(i, resp)

SpecBrowse == Init /\ [][NextBrowse]_vars

\* Sessions in which the user submits repositories, analyses and fuzzes them with
\* the initial fuzz inputs and never navigates; the root directory is empty.
NextRun ==
    \/ \E u \in Urls \cup {""} : SetRepoUrl(u)
    \/ HandleSubmit
    \/ \E i \in 1..Len(net), resp \in Responses(IngestData) : IngestDone(i, resp)
    \/ \E i \in 1..Len(net), resp \in TextResponses(EmptyListing) : ListDone(i, resp)
    \/ AnalyzeCode
    \/ \E i \in 1..Len(net), resp \in TextResponses(AnalysisData) : AnalyzeDone(i, resp)
    \/ RunFuzzingTests
    \/ \E i \in 1..Len(net), resp \in TextResponses(FuzzData) : FuzzDone(i, resp)

SpecRun == Init /\ [][NextRun]_vars

\* Sessions in which the user submits repositories, edits the fuzz inputs and
\* fuzzes; the root directory is empty.
NextFuzz ==
    \/ \E u \in Urls \cup {""} : SetRepoUrl(u)
    \/ \E n \in InstructionNames : SetInstructionName(n)
    \/ \E t \in TimeoutValues : SetTimeoutSeconds(t)
    \/ HandleSubmit
    \/ \E i \in 1..Len(net), resp \in Responses(IngestData) : IngestDone(i, resp)
    \/ \E i \in 1..Len(net), resp \in TextResponses(EmptyListing) : ListDone(i, resp)
    \/ RunFuzzingTests
    \/ \E i \in 1..Len(net), resp \in TextResponses(FuzzData) : FuzzDone(i, resp)

SpecFuzz == Init /\ [][NextFuzz]_vars

\* Up-navigation from every path: the session has ingested an eligible repository
\* and shows the listing of a directory whose path is any string of PathStrings.
InitPath ==
    /\ repoUrl = "u1"
    /\ loading = FALSE
    /\ result = [tag |-> "data", success |-> TRUE, anchor |-> "true", message |-> "m"]
    /\ error = ""
    /\ currentPath \in PathStrings
    /\ contentsResult \in
          {ContentsOf(Req("list", "u1", currentPath, "", 0), d) : d \in EmptyListing}
    /\ loadingContents = FALSE
    /\ analysisResult = Null
    /\ loadingAnalysis = FALSE
    /\ fuzzingResult = Null
    /\ loadingFuzzing = FALSE
    /\ instructionName = "increment"
    /\ timeoutSeconds = DefaultTimeout
    /\ net = <<>>
    /\ log = Null
    /\ newest = Committed(currentPath)
    /\ session = [url |-> "u1", status |-> "eligible"]

NextPath ==
    \/ NavigateUp
    \/ \E i \in 1..Len(net), resp \in TextResponses(EmptyListing) : ListDone(i, resp)

SpecPath == InitPath /\ [][NextPath]_vars

\* Browsing within one session of an eligible repository, from the listing of an
\* empty directory at any path, with every response a list request may receive.
NextList ==
    \/ \E k \in 1..1 : NavigateToPath(k)
    \/ NavigateUp
    \/ \E i \in 1..Len(net), resp \in ListResponses : ListDone(i, resp)

SpecList == InitPath /\ [][NextList]_vars

\* Sessions in which the user submits repositories, browses, analyses and fuzzes
\* with the initial fuzz inputs; every request fails at the network level, or is
\* answered with a non-2xx status and no body, or with a well-formed 2xx response.
SessionIngestData == {d \in IngestData : d.success /\ d.anchor = "true"}
SessionListData ==
    {d \in ListData : d.has = "contents" /\ d.contents # <<>>
                      /\ d.contents[1].content_type = "dir"
                      /\ d.contents[1].path = <<"a">>}
SessionAnalysisData == {d \in AnalysisData : d.success /\ d.bugs = <<"f1">>}
SessionFuzzData == {d \in FuzzData : d.success /\ d.errors = <<>>}
SessionResponses(D) ==
    {r \in TextResponses(D) : \/ r.status = "netfail"
                              \/ r.status = "bad" /\ r.body = TextBody("")
                              \/ r.status = "ok" /\ r.body.tag = "json"}

NextSession ==
    \/ \E u \in Urls : SetRepoUrl(u)
    \/ HandleSubmit
    \/ \E i \in 1..Len(net), resp \in SessionResponses(SessionIngestData) : IngestDone(i, resp)
    \/ \E k \in 1..1 : NavigateToPath(k)
    \/ NavigateUp
    \/ \E i \in 1..Len(net), resp \in SessionResponses(SessionListData) : ListDone(i, resp)
    \/ AnalyzeCode
    \/ \E i \in 1..Len(net), resp \in SessionResponses(SessionAnalysisData) : AnalyzeDone(i, resp)
    \/ RunFuzzingTests
    \/ \E i \in 1..Len(net), resp \in SessionResponses(SessionFuzzData) : FuzzDone(i, resp)

SpecSession == Init /\ [][NextSession]_vars

\* Sessions in which the user submits a repository, analyses and fuzzes it, with
\* one response of every outcome: a network failure, a non-2xx status, a 2xx
\* status with an empty body, with a body that does not parse, and with a
\* well-formed body; every request that is outstanding eventually settles.
OutcomeResponses(D) == {r \in TextResponses(D) : r.status = "bad" => r.body = TextBody("")}

IngestSettles ==
    \E i \in 1..Len(net), resp \in OutcomeResponses(SessionIngestData) : IngestDone(i, resp)
ListSettles ==
    \E i \in 1..Len(net), resp \in OutcomeResponses(EmptyListing) : ListDone(i, resp)
AnalyzeSettles ==
    \E i \in 1..Len(net), resp \in OutcomeResponses(SessionAnalysisData) : AnalyzeDone(i, resp)
FuzzSettles ==
    \E i \in 1..Len(net), resp \in OutcomeResponses(SessionFuzzData) : FuzzDone(i, resp)

NextOutcome ==
    \/ \E u \in Urls : SetRepoUrl(u)
    \/ HandleSubmit
    \/ IngestSettles
    \/ ListSettles
    \/ AnalyzeCode
    \/ AnalyzeSettles
    \/ RunFuzzingTests
    \/ FuzzSettles

SpecOutcome ==
    /\ Init /\ [][NextOutcome]_vars
    /\ WF_vars(IngestSettles)
    /\ WF_vars(ListSettles)
    /\ WF_vars(AnalyzeSettles)
    /\ WF_vars(FuzzSettles)
-----------------------------------------------------------------------------
\* Report logging: the test script posts a report to /api/log-report, and the
\* server answers with the SHA-256 hash of the report content it received.

MaxReportLen == 3

\* Characters of a report: a plain character, the double quote and the backslash.
ReportChars == {"a", "\"", "\\"}

RECURSIVE ReportsUpTo(_)
ReportsUpTo(n) ==
    IF n = 0 THEN {<<>>}
    ELSE LET S == ReportsUpTo(n - 1)
         IN  S \cup {Append(s, c) : s \in S, c \in ReportChars}

ReportStrings == ReportsUpTo(MaxReportLen)

\* The request body of the script, "{\"report_content\":\"$REPORT_CONTENT\"}":
\* the report is placed between the quotes as it is.  The key is one token.
BodyPrefix == <<"{", "\"", "report_content", "\"", ":", "\"">>
RequestBody(s) == BodyPrefix \o s \o <<"\"", "}">>

\* The server decodes a JSON string literal from the characters after its opening
\* quote: it ends at the first quote that is not escaped, and a backslash escapes
\* a quote or a backslash.
Malformed == [ok |-> FALSE, content |-> <<>>, rest |-> <<>>]
RECURSIVE DecodeString(_, _)
DecodeString(r, acc) ==
    IF r = <<>> THEN Malformed
    ELSE IF Head(r) = "\"" THEN [ok |-> TRUE, content |-> acc, rest |-> Tail(r)]
    ELSE IF Head(r) = "\\"
         THEN IF Len(r) >= 2 /\ r[2] \in {"\"", "\\"}
              THEN DecodeString(SubSeq(r, 3, Len(r)), Append(acc, r[2]))
              ELSE Malformed
    ELSE DecodeString(Tail(r), Append(acc, Head(r)))

\* The report content of a request body, when the body is the JSON object
\* {"report_content": <string>}.
ParseBody(body) ==
    IF Len(body) < Len(BodyPrefix) \/ SubSeq(body, 1, Len(BodyPrefix)) # BodyPrefix
    THEN Malformed
    ELSE LET d == DecodeString(SubSeq(body, Len(BodyPrefix) + 1, Len(body)), <<>>)
         IN  IF d.ok /\ d.rest = <<"}">> THEN d ELSE Malformed

\* The SHA-256 digest of a byte string, as a collision-free symbolic value.
Sha256(bytes) == [sha256 |-> bytes]

\* The response of /api/log-report to a request body.
LogReport(body) ==
    IF ParseBody(body).ok
    THEN [success |-> TRUE, hash |-> Sha256(ParseBody(body).content)]
    ELSE [success |-> FALSE, hash |-> Null]

\* The script is about to run with a report of ReportStrings.
InitReport ==
    /\ repoUrl = ""
    /\ loading = FALSE
    /\ result = Null
    /\ error = ""
    /\ currentPath = <<>>
    /\ contentsResult = Null
    /\ loadingContents = FALSE
    /\ analysisResult = Null
    /\ loadingAnalysis = FALSE
    /\ fuzzingResult = Null
    /\ loadingFuzzing = FALSE
    /\ instructionName = "increment"
    /\ timeoutSeconds = DefaultTimeout
    /\ net = <<>>
    /\ log \in {[tag |-> "script", report |-> s] : s \in ReportStrings}
    /\ newest = Null
    /\ session = [url |-> "", status |-> "none"]

\* The script sends its request.
SendReport ==
    /\ log.tag = "script"
    /\ log' = [tag |-> "sent", report |-> log.report, body |-> RequestBody(log.report)]
    /\ UNCHANGED <<repoUrl, loading, result, error, currentPath, contentsResult,
                   loadingContents, analysisResult, loadingAnalysis, fuzzingResult,
                   loadingFuzzing, instructionName, timeoutSeconds, net, newest, session>>

\* The server answers.
LogReportDone ==
    /\ log.tag = "sent"
    /\ log' = [tag |-> "done", report |-> log.report, response |-> LogReport(log.body)]
    /\ UNCHANGED <<repoUrl, loading, result, error, currentPath, contentsResult,
                   loadingContents, analysisResult, loadingAnalysis, fuzzingResult,
                   loadingFuzzing, instructionName, timeoutSeconds, net, newest, session>>

NextReport ==
    \/ SendReport
    \/ LogReportDone

SpecReport == InitReport /\ [][NextReport]_vars
-----------------------------------------------------------------------------
\* Properties.

Pipeline == {"list", "analyze", "fuzz"}

\* C1: stale-response suppression.  Once the list request issued last has
\* committed, the step that handles the response to a list request of the same
\* session that was issued earlier, for another path, changes neither the current
\* path nor the stored listing.
StaleResponseSuppression ==
    [][\A i \in 1..Len(net) :
         (/\ newest.tag = "committed"
          /\ net[i].kind = "list" /\ ~net[i].stale
          /\ net[i].path # newest.path
          /\ net' = Remove(net, i)) =>
             UNCHANGED <<currentPath, contentsResult>>]_vars

\* C2: gating.  No list, analyze or fuzz request issued since the last submission
\* for the submitted URL is outstanding in a session whose ingestion ended without
\* classifying the repository as eligible.
Gating ==
    \A i \in 1..Len(net) :
        (net[i].kind \in Pipeline /\ ~net[i].stale /\ net[i].url = session.url)
            => session.status # "ineligible"

\* C3: timeout bound enforcement.  Every fuzz-test request that is sent carries a
\* timeout of at least MinTimeout and at most MaxTimeout seconds.
TimeoutBoundEnforced ==
    \A i \in 1..Len(net) :
        net[i].kind = "fuzz" =>
            (MinTimeout <= net[i].timeout /\ net[i].timeout <= MaxTimeout)

\* C4: session reset.  The step that submits a repository leaves the ingestion
\* result, the listing, the current path, the analysis result, the fuzz result and
\* the error all empty.
SessionReset ==
    [][HandleSubmit =>
         /\ result' = Null
         /\ contentsResult' = Null
         /\ currentPath' = <<>>
         /\ analysisResult' = Null
         /\ fuzzingResult' = Null
         /\ error' = ""]_vars

\* C5: no carry-over across sessions.  The step that handles the response to a
\* request issued before the latest submission changes neither the listing, the
\* current path, the analysis result, the fuzz result nor the error.
NoCarryOver ==
    [][\A i \in 1..Len(net) :
         (net[i].stale /\ net' = Remove(net, i)) =>
             UNCHANGED <<contentsResult, currentPath, analysisResult,
                         fuzzingResult, error>>]_vars

\* C6: single-flight for browsing.  At most one repo-contents request is
\* outstanding at any time.
SingleFlightBrowsing == Count("list") <= 1

\* C7: single-flight for analysis and fuzzing.  Exactly one analyze-code request
\* is outstanding while loadingAnalysis is true and none while it is false, and
\* likewise for fuzz-test requests and loadingFuzzing; so no request of a kind is
\* started while one of that kind is outstanding.
SingleFlightChecks ==
    /\ Count("analyze") = (IF loadingAnalysis THEN 1 ELSE 0)
    /\ Count("fuzz") = (IF loadingFuzzing THEN 1 ELSE 0)

\* A new repository has been submitted and ingested as eligible, so that the
\* analysis controls are rendered, while the analysis request of the previous
\* session is still outstanding.
SingleFlightChecksWitness ==
    /\ ControlsVisible
    /\ session.status = "eligible"
    /\ loadingAnalysis
    /\ \E i \in 1..Len(net) : net[i].kind = "analyze" /\ net[i].stale

FuzzStarted == ~loadingFuzzing /\ loadingFuzzing'
FuzzFailed == loadingFuzzing /\ ~loadingFuzzing' /\ fuzzingResult' = Null
AnalysisStarted == ~loadingAnalysis /\ loadingAnalysis'
AnalysisFailed ==
    /\ loadingAnalysis /\ ~loadingAnalysis'
    /\ ~analysisResult'.success
    /\ error' = analysisResult'.message

\* C9: result isolation.  The start and the failure of a fuzz run leave the
\* analysis result and the listing unchanged; the start and the failure of an
\* analysis leave the fuzz result and the listing unchanged.
ResultIsolation ==
    [][/\ (FuzzStarted \/ FuzzFailed) => UNCHANGED <<analysisResult, contentsResult>>
       /\ (AnalysisStarted \/ AnalysisFailed) => UNCHANGED <<fuzzingResult, contentsResult>>]_vars

\* A fuzz run has failed on a non-2xx response without a body while an analysis
\* result and a listing were stored.
ResultIsolationWitness ==
    /\ error = "Failed to run fuzzing tests"
    /\ ~loadingFuzzing
    /\ fuzzingResult = Null
    /\ analysisResult # Null
    /\ contentsResult # Null

\* The path p without its last '/'-separated segment: what precedes the last '/'
\* of p, nothing when p holds no '/'.
LastSlash(p) == CHOOSE i \in 1..Len(p) : p[i] = "/" /\ \A j \in (i + 1)..Len(p) : p[j] # "/"
DropLastSegment(p) == IF HasSlash(p) THEN SubSeq(p, 1, LastSlash(p) - 1) ELSE <<>>

\* C10: up-navigation.  navigateUp at the root sends nothing and changes nothing;
\* elsewhere it sends one list request, for the current path without its last
\* segment.
UpNavigation ==
    [][NavigateUp =>
         IF currentPath = <<>>
         THEN UNCHANGED vars
         ELSE net' = Append(net, Req("list", repoUrl, DropLastSegment(currentPath), "", 0))]_vars

\* navigateUp has requested the parent of a path of several segments.
UpNavigationWitness ==
    /\ HasSlash(currentPath)
    /\ DropLastSegment(currentPath) # <<>>
    /\ \E i \in 1..Len(net) :
          net[i].kind = "list" /\ net[i].path = DropLastSegment(currentPath)

\* The step settles the request at position i, of the given kind, and starts no
\* request.
Settles(i, kind) == net[i].kind = kind /\ net' = Remove(net, i)

\* The findings an analysis response carries: the bugs of a well-formed 2xx body,
\* none when the scan failed.
CarriedBugs(resp) == IF TextFailure(resp) = "" THEN resp.body.data.bugs ELSE <<>>

\* C11: analysis re-invocation replaces, never accumulates.  The step that
\* completes an analysis stores exactly the findings its response carries, in the
\* response's order, and every other step that changes the stored analysis
\* result empties it; so the stored findings are those of the analysis completed
\* last.
AnalysisReplaces ==
    [][IF \E i \in 1..Len(net) : Settles(i, "analyze")
       THEN \A i \in 1..Len(net) : Settles(i, "analyze") =>
                \A resp \in AnalysisResponses :
                    AnalyzeDone(i, resp) => analysisResult'.bugs = CarriedBugs(resp)
       ELSE analysisResult' \in {analysisResult, Null}]_vars

\* An analysis has completed with two findings that the response lists in an
\* order other than the alphabetical one.
AnalysisReplacesWitness ==
    /\ ~loadingAnalysis
    /\ analysisResult # Null
    /\ analysisResult.bugs = <<"f2", "f1">>

\* C12: a successful scan with zero findings is distinguished from a failed
\* scan.  The step that handles a well-formed 2xx analysis response without
\* findings stores the response as it is and leaves the error as it was, so an
\* empty error stays empty; the step that handles a failed scan stores the
\* fallback result (success false, the failure message, no findings) and sets the
\* error to the failure message, which is not empty; and what is stored for a
\* response that reports success is the fallback result of no failure.
ZeroFindingsIsNotFailure ==
    [][\A i \in 1..Len(net) : Settles(i, "analyze") =>
       \A resp \in AnalysisResponses :
         AnalyzeDone(i, resp) =>
            IF TextFailure(resp) = ""
            THEN resp.body.data.bugs = <<>> =>
                    /\ analysisResult' = resp.body.data
                    /\ error' = error
                    /\ resp.body.data.success =>
                          \A r \in AnalysisResponses :
                              analysisResult' # FailedScan(TextFailure(r))
            ELSE /\ analysisResult' = FailedScan(TextFailure(resp))
                 /\ error' = TextFailure(resp)
                 /\ error' # ""]_vars

\* A scan has completed successfully without findings and without an error.
ZeroFindingsIsNotFailureWitness ==
    /\ ~loadingAnalysis
    /\ analysisResult # Null
    /\ analysisResult.success
    /\ analysisResult.bugs = <<>>
    /\ error = ""

\* A well-formed 2xx list response that carries a listing without entries.
IsEmptyDirectory(resp) ==
    /\ TextFailure(resp) = ""
    /\ resp.body.data.has = "contents"
    /\ resp.body.data.contents = <<>>

\* C13: empty-directory distinctness.  The step that handles a successful list
\* response without entries stores a listing with an empty contents sequence,
\* leaves the error as it was and renders the empty-directory state; the step
\* that handles any other list response (a failure, a file with or without a
\* preview, a listing with entries) does not render that state, and a failure
\* stores no contents and sets the error.
EmptyDirectoryDistinct ==
    [][\A i \in 1..Len(net) : Settles(i, "list") =>
       \A resp \in ListResponses :
         ListDone(i, resp) =>
            IF IsEmptyDirectory(resp)
            THEN /\ contentsResult'.has = "contents"
                 /\ contentsResult'.contents = <<>>
                 /\ error' = error
                 /\ ContentsView' = "empty directory"
            ELSE /\ ContentsView' # "empty directory"
                 /\ TextFailure(resp) # "" =>
                       (contentsResult'.has = "none" /\ error' # "")]_vars

\* A list response without entries has been handled while another list request
\* is outstanding: the listing of an empty directory is shown without an error.
EmptyDirectoryDistinctWitness ==
    /\ ~loadingContents
    /\ Count("list") > 0
    /\ ContentsView = "empty directory"
    /\ error = ""

\* C14: analysis and fuzzing are mutually non-blocking.  Whenever the controls
\* of an eligible repository are shown and a URL is entered, an analysis can be
\* started unless an analysis is running and a fuzz run can be started unless a
\* fuzz run is running, whatever the state of the other; and every outstanding
\* analyze or fuzz request can settle, with any response, whatever the state of
\* the other.
MutuallyNonBlocking ==
    /\ (ControlsVisible /\ repoUrl # "" /\ ~loadingAnalysis) =>
           ENABLED (AnalyzeCode /\ loadingAnalysis')
    /\ (ControlsVisible /\ repoUrl # "" /\ ~loadingFuzzing) =>
           ENABLED (RunFuzzingTests /\ loadingFuzzing')
    /\ \A i \in 1..Len(net) :
          /\ net[i].kind = "analyze" =>
                \A resp \in TextResponses(AnalysisData) : ENABLED AnalyzeDone(i, resp)
          /\ net[i].kind = "fuzz" =>
                \A resp \in TextResponses(FuzzData) : ENABLED FuzzDone(i, resp)

\* An analysis was started while a fuzz run was outstanding, or the other way
\* round: both requests of the current session are outstanding.
MutuallyNonBlockingWitness ==
    /\ loadingAnalysis /\ loadingFuzzing
    /\ \E i, j \in 1..Len(net) :
          /\ net[i].kind = "analyze" /\ ~net[i].stale
          /\ net[j].kind = "fuzz" /\ ~net[j].stale

IsProtocolError(resp) == resp.status = "ok" /\ resp.body.tag = "text"
TransportMessages == {TextFailure(r) : r \in [status : {"bad"}, body : TextBodies]}

\* C16: protocol versus transport error.  For list and for analyze, the step that
\* handles a 2xx response with an empty or unparsable body sets the error to a
\* message that no non-2xx response produces, the step that handles a non-2xx
\* response sets the error too, and each of these steps clears the loading flag
\* of its operation.
ProtocolVersusTransport ==
    [][/\ \A i \in 1..Len(net) : Settles(i, "list") =>
          \A resp \in ListResponses :
            ((IsProtocolError(resp) \/ resp.status = "bad") /\ ListDone(i, resp)) =>
                /\ error' # "" /\ ~loadingContents'
                /\ IsProtocolError(resp) => error' \notin TransportMessages
       /\ \A i \in 1..Len(net) : Settles(i, "analyze") =>
          \A resp \in AnalysisResponses :
            ((IsProtocolError(resp) \/ resp.status = "bad") /\ AnalyzeDone(i, resp)) =>
                /\ error' # "" /\ ~loadingAnalysis'
                /\ IsProtocolError(resp) => error' \notin TransportMessages]_vars

\* An analysis has ended on a 2xx response with an empty body.
ProtocolVersusTransportWitness ==
    /\ ~loadingAnalysis
    /\ error = "Empty response from server"
    /\ analysisResult = FailedScan(error)

\* C17: the current path is changed only by navigation.  A step that changes
\* the current path is either a submission, which resets it to the root, or the
\* handling of a successful list response, which sets it to the path that was
\* requested; so starting or completing an analysis or a fuzz run, and a list
\* request that fails, leave it unchanged.
PathChangedOnlyByNavigation ==
    [][currentPath' # currentPath =>
         \/ HandleSubmit /\ currentPath' = <<>>
         \/ \E i \in 1..Len(net), resp \in ListResponses :
               /\ TextFailure(resp) = ""
               /\ ListDone(i, resp)
               /\ currentPath' = net[i].path]_vars

\* Below the root, a list request has failed and an analysis and a fuzz run have
\* completed, and the current path is still the one navigated to.
PathChangedOnlyByNavigationWitness ==
    /\ currentPath # <<>>
    /\ contentsResult # Null /\ contentsResult.has = "none"
    /\ analysisResult # Null /\ ~loadingAnalysis
    /\ fuzzingResult # Null /\ ~loadingFuzzing

\* The step handles a response to the request at position i with a failure, and
\* msg is the message of that failure.
FailedWith(i, msg) ==
    /\ net' = Remove(net, i)
    /\ CASE net[i].kind = "ingest" ->
              \E resp \in IngestResponses :
                  IngestFailure(resp) # "" /\ IngestDone(i, resp) /\ msg = IngestFailure(resp)
        [] net[i].kind = "list" ->
              \E resp \in ListResponses :
                  TextFailure(resp) # "" /\ ListDone(i, resp) /\ msg = TextFailure(resp)
        [] net[i].kind = "analyze" ->
              \E resp \in AnalysisResponses :
                  TextFailure(resp) # "" /\ AnalyzeDone(i, resp) /\ msg = TextFailure(resp)
        [] net[i].kind = "fuzz" ->
              \E resp \in FuzzResponses :
                  FuzzFailure(resp) # "" /\ FuzzDone(i, resp) /\ msg = FuzzFailure(resp)

\* The step handles a response to the request at position i with a failure
\* whose message is not msg.
FailedOtherwise(i, msg) ==
    /\ net' = Remove(net, i)
    /\ CASE net[i].kind = "ingest" ->
              \E resp \in IngestResponses :
                  IngestFailure(resp) \notin {"", msg} /\ IngestDone(i, resp)
        [] net[i].kind = "list" ->
              \E resp \in ListResponses :
                  TextFailure(resp) \notin {"", msg} /\ ListDone(i, resp)
        [] net[i].kind = "analyze" ->
              \E resp \in AnalysisResponses :
                  TextFailure(resp) \notin {"", msg} /\ AnalyzeDone(i, resp)
        [] net[i].kind = "fuzz" ->
              \E resp \in FuzzResponses :
                  FuzzFailure(resp) \notin {"", msg} /\ FuzzDone(i, resp)

\* C18: the single error slot reflects the most recent failure.  The step that
\* completes an ingestion, a list request, an analysis or a fuzz run with a
\* failure sets the error to the message of that failure, and no other step
\* changes the error to a non-empty message; so a non-empty error is always the
\* message of the operation that failed last.
ErrorReflectsLastFailure ==
    [][/\ \A i \in 1..Len(net) : ~FailedOtherwise(i, error')
       /\ (error' # error /\ error' # "") =>
            \E i \in 1..Len(net) : FailedWith(i, error')]_vars

\* An analysis failed on a non-2xx response and a fuzz run failed after it: the
\* error is the message of the fuzz run.
ErrorReflectsLastFailureWitness ==
    /\ analysisResult = FailedScan("Server error: 500")
    /\ ~loadingFuzzing /\ fuzzingResult = Null
    /\ error = "Failed to run fuzzing tests"

\* C19: hash round-trip.  For every report s, the response to the request that
\* logs s reports success and carries the SHA-256 digest of exactly s.
HashRoundTrip ==
    log.tag = "done" =>
        (log.response.success /\ log.response.hash = Sha256(log.report))

\* C20: no impossible flag combinations.  For each kind of operation, no result
\* of that kind is stored while its loading flag is set.
NoImpossibleFlags ==
    /\ loading => result = Null
    /\ loadingContents => contentsResult = Null
    /\ loadingAnalysis => analysisResult = Null
    /\ loadingFuzzing => fuzzingResult = Null

\* C21: every started operation terminates.  When every outstanding request
\* eventually settles, each loading flag that is set is eventually cleared,
\* whatever the responses are.
OperationsTerminate ==
    /\ loading ~> ~loading
    /\ loadingContents ~> ~loadingContents
    /\ loadingAnalysis ~> ~loadingAnalysis
    /\ loadingFuzzing ~> ~loadingFuzzing

\* A fuzz run has ended on a 2xx response with a body that does not parse, and
\* an analysis on one with an empty body; nothing is outstanding.
OperationsTerminateWitness ==
    /\ net = <<>>
    /\ ~loadingFuzzing /\ fuzzingResult = Null /\ error = SyntaxError
    /\ ~loadingAnalysis /\ analysisResult = FailedScan("Empty response from server")

\* The error that is stored is the message of the failed analysis whose fallback
\* result is stored.
AnalysisErrorRecorded == error # "" /\ analysisResult = FailedScan(error)

\* The step starts a fuzz run or a list request.
OtherKindStarted ==
    /\ Len(net') = Len(net) + 1
    /\ net'[Len(net')].kind \in {"fuzz", "list"}

\* C22: starting an operation of one kind does not clear the error recorded by a
\* failed operation of a different kind.  While the error of a failed analysis
\* is recorded, the start of a fuzz run or of a list request leaves the error
\* unchanged.
ErrorSlotsIndependent ==
    [][(AnalysisErrorRecorded /\ OtherKindStarted) => error' = error]_vars

\* The step handles a response to the list request at position i with a failure.
ListFailed(i) ==
    /\ Settles(i, "list")
    /\ \E resp \in ListResponses : TextFailure(resp) # "" /\ ListDone(i, resp)

\* C23: path/listing consistency.  Whenever a listing is visible, the current
\* path is the path that was requested for that listing, in whatever order the
\* responses arrive; and the step that handles a failed list request stores a
\* record that carries the failed path and is no listing, and leaves the
\* current path unchanged.
PathListingConsistency ==
    /\ [](ListingVisible => contentsResult.path = currentPath)
    /\ [][\A i \in 1..Len(net) :
             ListFailed(i) => /\ contentsResult'.path = net[i].path
                              /\ ~ListingVisible'
                              /\ currentPath' = currentPath]_vars

\* In a session whose ingestion succeeded, the list request issued last has
\* failed and the response to an older request for the directory a has arrived
\* after it: its listing is visible with the current path a.
PathListingConsistencyWitness ==
    /\ ControlsVisible /\ ~loading
    /\ ListingVisible /\ currentPath = <<"a">>
    /\ newest = Null /\ Count("list") = 0
====
